---- MODULE Spec2Model ----
(***************************************************************************)
(* RAG FastAPI service (src/main.py): index provisioning, single and bulk  *)
(* document ingestion, and the hybrid (filter + vector) search endpoint,   *)
(* modelled against an Elasticsearch-like store.  Every store or           *)
(* collaborator round trip of a handler is one step of the request that    *)
(* issues it, and each such call may fail.                                 *)
(***************************************************************************)
EXTENDS Integers, Sequences, FiniteSets, TLC

\* ---------------------------------------------------------------- bounds
MaxRequests == 2
MaxDocs == 3
BULK_BATCH_SIZE == 2
EMBED_DIM == 2
MaxRetries == 3

\* ------------------------------------------------------ program constants
DefaultK == 5
FilterSize == 1000

ES_INDEX == "rag_documents"
VectorField == "vector"
KnnField == "vector"
ScriptField == "embedding"

\* ------------------------------------------------------------ value model
None == "None"
Nothing == [some |-> FALSE]
Some(v) == [some |-> TRUE, val |-> v]

Null == [type |-> "null"]
Scalar(v) == [type |-> "scalar", v |-> v]
List(vs) == [type |-> "list", vs |-> vs]

NoMeta == [k \in {} |-> Null]
Meta1(k, v) == [x \in {k} |-> v]

Procs == {1, 2}
IndexNames == {ES_INDEX, "other"}
Versions == {<<6, 8>>, <<7, 17>>, <<8, 11>>, <<9, 0>>}

DocA == [doc_id |-> "a", page_content |-> "x",
         metadata |-> Some(Meta1("lang", Scalar("en")))]
DocB == [doc_id |-> "b", page_content |-> "y",
         metadata |-> Some(Meta1("lang", Scalar("th")))]
DocC == [doc_id |-> "c", page_content |-> "w",
         metadata |-> Some(Meta1("lang", Scalar("en")))]
DocNoId == [doc_id |-> None, page_content |-> "z",
            metadata |-> Some(Meta1("lang", Null))]
DocA2 == [doc_id |-> "a", page_content |-> "w", metadata |-> Nothing]

\* documents submitted to add_document, and to add_documents_bulk; a
\* doc_id is None or a non-empty string
DocInputs == {DocA, DocNoId, DocA2}
BulkInputs == {DocA, DocB, DocC, DocNoId}

Filters ==
  { Nothing,
    Some(NoMeta),
    Some(Meta1("lang", Scalar("en"))),
    Some(Meta1("lang", List(<<"en", "th">>))),
    Some(Meta1("lang", Null)) }

Queries == {"x", "z"}
Ks == {Nothing, Some(1)}
Models == {"llama3.1:8b"}

SeqsUpTo(S, n) == UNION {[1..m -> S] : m \in 0..n}

Requests ==
  [op : {"add_document"}, index : IndexNames, doc : DocInputs]
    \cup [op : {"add_documents_bulk"}, index : IndexNames,
          documents : SeqsUpTo(BulkInputs, MaxDocs)]
    \cup [op : {"search"}, index : IndexNames, model : Models, query : Queries,
          k : Ks, filter_metadata : Filters]

\* ------------------------------------------------------------ embeddings
\* embed(text): a fixed vector of EMBED_DIM components per text.
Comp1(t) == CASE t = "x" -> 1 [] t = "y" -> 0 [] t = "z" -> 1 [] t = "w" -> 2 [] OTHER -> 1
Comp2(t) == CASE t = "x" -> 0 [] t = "y" -> 1 [] t = "z" -> 1 [] t = "w" -> 1 [] OTHER -> 1
Embed(t) == [i \in 1..EMBED_DIM |-> IF i = 1 THEN Comp1(t) ELSE IF i = 2 THEN Comp2(t) ELSE 0]

RECURSIVE DotTo(_, _, _)
DotTo(u, v, n) == IF n = 0 THEN 0 ELSE u[n] * v[n] + DotTo(u, v, n - 1)
Dot(u, v) == DotTo(u, v, Len(u))
Sgn(n) == IF n > 0 THEN 1 ELSE IF n < 0 THEN -1 ELSE 0
\* cos(u, q) >= cos(v, q), compared without division or square roots
CosGE(u, v, q) ==
  Sgn(Dot(u, q)) * Dot(u, q) * Dot(u, q) * Dot(v, v)
    >= Sgn(Dot(v, q)) * Dot(v, q) * Dot(v, q) * Dot(u, u)

\* (variant of clean_metadata: null values are kept)
clean_metadataKeepsNull(metadata) ==
  IF ~metadata.some THEN NoMeta ELSE metadata.val

\* ------------------------------------------------------ clean_metadata
clean_metadata(metadata) ==
  IF ~metadata.some \/ DOMAIN metadata.val = {} THEN NoMeta
  ELSE [k \in {x \in DOMAIN metadata.val : metadata.val[x] /= Null} |-> metadata.val[k]]

\* ------------------------------------------------------------ the store
NoIndex == [exists |-> FALSE]

MetadataMapping == [type |-> "object", enabled |-> TRUE, dynamic |-> FALSE]

DenseVectorMapping(dim) ==
  [exists |-> TRUE, metadata |-> MetadataMapping,
   vector |-> [field |-> VectorField, type |-> "dense_vector", dims |-> dim]]

KnnVectorMapping(dim) ==
  [exists |-> TRUE, metadata |-> MetadataMapping,
   vector |-> [field |-> VectorField, type |-> "knn_vector", dimension |-> dim,
               method |-> [name |-> "hnsw", space_type |-> "cosinesimil",
                           engine |-> "nmslib"]]]

\* int(version.split('.')[0])
MajorVersion(version) == version[1]

\* (variant of MappingFor: the two vector mappings exchanged)
MappingForSwapped(version, dim) ==
  IF MajorVersion(version) >= 8 THEN Some(KnnVectorMapping(dim))
  ELSE IF MajorVersion(version) = 7 THEN Some(DenseVectorMapping(dim))
  ELSE Nothing

\* the vector mapping create_index_if_not_exists chooses for an engine
\* version (Nothing: the version is rejected as unsupported)
MappingFor(version, dim) ==
  IF MajorVersion(version) >= 8 THEN Some(DenseVectorMapping(dim))
  ELSE IF MajorVersion(version) = 7 THEN Some(KnnVectorMapping(dim))
  ELSE Nothing

\* a document as the store holds it: text, cleaned metadata, embedding
Stored(id, lc_doc) ==
  [id |-> id, text |-> lc_doc.page_content, metadata |-> lc_doc.metadata,
   vector |-> Embed(lc_doc.page_content)]

\* the id the engine assigns to the n-th document indexed without one
AutoId(n) == ToString(n)

\* (variant of Upsert: a document is added beside the one of the same id)
UpsertBeside(S, d) == S \cup {d}

\* index operation with _id: replaces the document of that id
Upsert(S, d) == {e \in S : e.id /= d.id} \cup {d}

IdsOf(S) == {d.id : d \in S}

\* (variant of DocExists: the existence check never finds the document)
DocExistsNever(S, id) == FALSE

\* es_client.exists(index=..., id=...) on the documents of the index
DocExists(S, id) == id \in IdsOf(S)

\* Document(page_content=..., metadata=clean_metadata(...))
LcDoc(d) == [page_content |-> d.page_content, metadata |-> clean_metadata(d.metadata)]

\* ids argument of add_documents: the list if any id is set, else None
IdsArg(ids_batch) ==
  IF \E j \in 1..Len(ids_batch) : ids_batch[j] /= None THEN Some(ids_batch) ELSE Nothing

\* vector_store.add_documents(batch, ids=...): documents are indexed in
\* order, each under its id, or under an engine-assigned id when it has none
RECURSIVE WriteDocs(_, _, _, _)
WriteDocs(S, auto, batch, ids) ==
  IF batch = <<>> THEN [docs |-> S, auto |-> auto]
  ELSE LET given == IF ids.some THEN ids.val[1] ELSE None
           rest == IF ids.some THEN Some(Tail(ids.val)) ELSE Nothing
       IN IF given /= None
          THEN WriteDocs(Upsert(S, Stored(given, batch[1])), auto, Tail(batch), rest)
          ELSE WriteDocs(S \cup {Stored(AutoId(auto), batch[1])}, auto + 1,
                         Tail(batch), rest)

\* the dimensionality an index's vector field was created with
DimOf(mapping) ==
  IF mapping.vector.type = "dense_vector" THEN mapping.vector.dims
  ELSE mapping.vector.dimension

\* the store indexes a batch only if every vector has the length the
\* index's vector field was created with (the handlers write after
\* provisioning; without an index there is no mapping to check against)
Accepts(mapping, batch) ==
  mapping.exists =>
    \A j \in 1..Len(batch) : Len(Embed(batch[j].page_content)) = DimOf(mapping)

\* ------------------------------------------------------------- state
VARIABLES
  esVersion,   \* version the engine reports (info()['version']['number'])
  mappings,    \* index name -> its mapping, or NoIndex
  docs,        \* index name -> the documents it holds
  nextAuto,    \* counter behind engine-assigned ids
  pc,          \* request slot -> position in its handler
  req,         \* request slot -> the request being served
  loc,         \* request slot -> the handler's local variables
  calls,       \* request slot -> store and collaborator calls made so far
  pre,         \* request slot -> the target index as it was when the request began
  follows,     \* request slot -> the exchange this request repeats, if any
  served,      \* number of requests received so far
  last,        \* the exchange completed most recently, until the next request
  san,         \* clean_metadata applied on its own: argument and results
  guard,       \* wait_for_es at module startup: its loop and its outcome
  dim,         \* the EMBED_DIM the running deployment read from its environment
  answered     \* request slot -> the exchange it completed, until taken

vars == <<esVersion, mappings, docs, nextAuto, pc, req, loc, calls, pre, follows,
          served, last, san, guard, dim, answered>>
store == <<esVersion, mappings, docs, nextAuto>>
\* what the request handlers never touch
apart == <<san, guard, dim>>

NoReq == [op |-> "none"]
NoLast == [req |-> NoReq]
NoPre == [exists |-> FALSE, ids |-> {}]
Loc0 == [mapping |-> NoIndex, ids |-> {}, qvec |-> <<>>, k |-> 0,
         batch |-> <<>>, ids_batch |-> <<>>, i |-> 0, added |-> 0]

SanOff == [phase |-> "off"]
GuardOff == [phase |-> "off"]

\* no index, no request
Quiet ==
  /\ dim = EMBED_DIM
  /\ mappings = [n \in IndexNames |-> NoIndex]
  /\ docs = [n \in IndexNames |-> {}]
  /\ nextAuto = 1
  /\ pc = [p \in Procs |-> "idle"]
  /\ req = [p \in Procs |-> NoReq]
  /\ loc = [p \in Procs |-> Loc0]
  /\ calls = [p \in Procs |-> <<>>]
  /\ pre = [p \in Procs |-> NoPre]
  /\ follows = [p \in Procs |-> Nothing]
  /\ served = 0
  /\ last = NoLast
  /\ answered = [p \in Procs |-> NoLast]

\* the service after startup: the store was reachable
Init ==
  /\ esVersion \in Versions
  /\ Quiet
  /\ san = SanOff
  /\ guard = GuardOff

\* ---------------------------------------------------------- responses
Raised(error, msg, cause) ==
  [status |-> "raised", error |-> error, msg |-> msg, cause |-> cause]
\* a store call that fails because the store cannot serve it
StoreError(op) == Raised("ApiError", op, "unavailable")
\* a write the store rejects for the length of a vector
DimensionError(op) == Raised("BulkIndexError", op, "mapper_parsing_exception")
\* a search on an index that does not exist
IndexNotFound(op) == Raised("NotFoundError", op, "index_not_found_exception")
ProvisioningError(cause) == Raised("RuntimeError", "Failed to create index", cause)

\* the re-submissions of an ingestion request q: the same endpoint and
\* index, and the same document id (add_document) or the same documents
\* (add_documents_bulk)
Resubmissions(q) ==
  IF q.op = "add_document"
  THEN [op : {q.op}, index : {q.index},
        doc : {d \in DocInputs : d.doc_id = q.doc.doc_id}]
  ELSE IF q.op = "add_documents_bulk" THEN {q}
  ELSE {}

\* the handler of slot p moves to `label`
Goto(p, label, cs, l) ==
  /\ pc' = [pc EXCEPT ![p] = label]
  /\ calls' = [calls EXCEPT ![p] = cs]
  /\ loc' = [loc EXCEPT ![p] = l]
  /\ UNCHANGED <<req, pre, follows, served, last, answered, apart>>

\* the handler of slot p returns (or raises) `resp`
Finish(p, resp, cs) ==
  /\ last' = [req |-> req[p], resp |-> resp, calls |-> cs, pre |-> pre[p],
              follows |-> follows[p]]
  /\ answered' = [answered EXCEPT ![p] = last']
  /\ follows' = [follows EXCEPT ![p] = Nothing]
  /\ UNCHANGED <<served, apart>>
  /\ pc' = [pc EXCEPT ![p] = "idle"]
  /\ req' = [req EXCEPT ![p] = NoReq]
  /\ loc' = [loc EXCEPT ![p] = Loc0]
  /\ calls' = [calls EXCEPT ![p] = <<>>]
  /\ pre' = [pre EXCEPT ![p] = NoPre]

\* the handler of request r starts in slot p.  The ElasticsearchStore
\* constructor of the ingestion endpoints issues no call to the store.
Begin(p, r, f) ==
  /\ pc[p] = "idle"
  /\ served < MaxRequests
  /\ served' = served + 1
  /\ last' = NoLast
  /\ answered' = [answered EXCEPT ![p] = NoLast]
  /\ req' = [req EXCEPT ![p] = r]
  /\ follows' = [follows EXCEPT ![p] = f]
  /\ pre' = [pre EXCEPT ![p] = [exists |-> mappings[r.index].exists,
                                ids |-> IdsOf(docs[r.index])]]
  /\ pc' = [pc EXCEPT ![p] = IF r.op = "search" THEN "s_setup" ELSE "ci_exists"]
  /\ UNCHANGED <<store, loc, calls, apart>>

\* a request arrives
Start(p) ==
  /\ last = NoLast
  /\ \E r \in Requests : Begin(p, r, Nothing)

\* the caller repeats the ingestion request it has just been answered
Resubmit(p) ==
  /\ last /= NoLast
  /\ \E r \in Resubmissions(last.req) :
       Begin(p, r, Some([resp |-> last.resp, pre |-> last.pre]))

\* the responses of the exchanges completed have been taken
Deliver ==
  /\ last /= NoLast
  /\ last' = NoLast
  /\ answered' = [p \in Procs |-> NoLast]
  /\ UNCHANGED <<store, pc, req, loc, calls, pre, follows, served, apart>>

\* (variant of CiExists: the version is probed whether or not the index
\* exists)
CiExistsReprobes(p) ==
  /\ pc[p] = "ci_exists"
  /\ UNCHANGED store
  /\ \E ok \in BOOLEAN :
       LET cs == Append(calls[p], [op |-> "indices.exists", index |-> req[p].index]) IN
       IF ~ok THEN Finish(p, StoreError("indices.exists"), cs)
       ELSE Goto(p, "ci_info", cs, loc[p])

\* ------------------------------------------ create_index_if_not_exists
AfterProvision(r) == IF r.op = "add_document" THEN "ad_exists" ELSE "bulk_len"

\* es_client.indices.exists(index=index_name)
CiExists(p) ==
  /\ pc[p] = "ci_exists"
  /\ UNCHANGED store
  /\ \E ok \in BOOLEAN :
       LET cs == Append(calls[p], [op |-> "indices.exists", index |-> req[p].index]) IN
       IF ~ok THEN Finish(p, StoreError("indices.exists"), cs)
       ELSE IF mappings[req[p].index].exists
            THEN Goto(p, AfterProvision(req[p]), cs, loc[p])
            ELSE Goto(p, "ci_info", cs, loc[p])

\* (variant of CiInfo: a failed probe or an unsupported version is passed
\* over and the handler goes on)
CiInfoPassedOver(p) ==
  /\ pc[p] = "ci_info"
  /\ UNCHANGED store
  /\ \E ok \in BOOLEAN :
       LET cs == Append(calls[p], [op |-> "info"])
           m == MappingFor(esVersion, dim) IN
       IF ~ok \/ ~m.some THEN Goto(p, AfterProvision(req[p]), cs, loc[p])
       ELSE Goto(p, "ci_create", cs, [loc[p] EXCEPT !.mapping = m.val])

\* es_client.info(), the version test and the choice of mapping
CiInfo(p) ==
  /\ pc[p] = "ci_info"
  /\ UNCHANGED store
  /\ \E ok \in BOOLEAN :
       LET cs == Append(calls[p], [op |-> "info"])
           m == MappingFor(esVersion, dim) IN
       IF ~ok THEN Finish(p, ProvisioningError("info"), cs)
       ELSE IF ~m.some
            THEN Finish(p, ProvisioningError("Unsupported Elasticsearch version"), cs)
            ELSE Goto(p, "ci_create", cs, [loc[p] EXCEPT !.mapping = m.val])

\* es_client.indices.create(index=index_name, body=mapping_template); the
\* store refuses to create an index that exists by now
CiCreate(p) ==
  /\ pc[p] = "ci_create"
  /\ UNCHANGED <<esVersion, docs, nextAuto>>
  /\ \E ok \in BOOLEAN :
       LET cs == Append(calls[p], [op |-> "indices.create", index |-> req[p].index,
                                   body |-> loc[p].mapping]) IN
       IF ~ok
       THEN /\ Finish(p, ProvisioningError("indices.create"), cs)
            /\ UNCHANGED mappings
       ELSE IF mappings[req[p].index].exists
       THEN /\ Finish(p, ProvisioningError("resource_already_exists_exception"), cs)
            /\ UNCHANGED mappings
       ELSE /\ mappings' = [mappings EXCEPT ![req[p].index] = loc[p].mapping]
            /\ Goto(p, AfterProvision(req[p]), cs, [loc[p] EXCEPT !.mapping = NoIndex])

\* ------------------------------------------------------- add_document
\* doc.doc_id and es_client.exists(index=doc.index, id=doc.doc_id)
AdExists(p) ==
  /\ pc[p] = "ad_exists"
  /\ UNCHANGED store
  /\ LET d == req[p].doc IN
     IF d.doc_id = None THEN Goto(p, "ad_write", calls[p], loc[p])
     ELSE \E ok \in BOOLEAN :
            LET cs == Append(calls[p], [op |-> "exists", index |-> req[p].index,
                                        id |-> d.doc_id,
                                        found |-> ok /\ DocExists(docs[req[p].index],
                                                                  d.doc_id)]) IN
            IF ~ok THEN Finish(p, StoreError("exists"), cs)
            ELSE IF DocExists(docs[req[p].index], d.doc_id)
                 THEN Finish(p, [status |-> "skipped", reason |-> "exists"], cs)
                 ELSE Goto(p, "ad_write", cs, loc[p])

\* vector_store.add_documents([lc_doc], ids=[doc.doc_id] if doc.doc_id else None)
AdWrite(p) ==
  /\ pc[p] = "ad_write"
  /\ UNCHANGED <<esVersion, mappings>>
  /\ \E ok \in BOOLEAN :
       LET d == req[p].doc
           batch == <<LcDoc(d)>>
           ids == IF d.doc_id /= None THEN Some(<<d.doc_id>>) ELSE Nothing
           cs == Append(calls[p], [op |-> "add_documents", index |-> req[p].index,
                                   docs |-> batch, ids |-> ids])
           w == WriteDocs(docs[req[p].index], nextAuto, batch, ids) IN
       IF ~ok THEN /\ Finish(p, StoreError("add_documents"), cs)
                   /\ UNCHANGED <<docs, nextAuto>>
       ELSE IF ~Accepts(mappings[req[p].index], batch)
       THEN /\ Finish(p, DimensionError("add_documents"), cs)
            /\ UNCHANGED <<docs, nextAuto>>
       ELSE /\ docs' = [docs EXCEPT ![req[p].index] = w.docs]
            /\ nextAuto' = w.auto
            /\ Finish(p, [status |-> "ok"], cs)

\* --------------------------------------------------- add_documents_bulk
\* n = len(docs); if n == 0: return {"status": "no_docs"}
BulkLen(p) ==
  /\ pc[p] = "bulk_len"
  /\ UNCHANGED store
  /\ IF Len(req[p].documents) = 0
     THEN Finish(p, [status |-> "no_docs"], calls[p])
     ELSE Goto(p, "bulk_loop", calls[p], [loc[p] EXCEPT !.i = 1])

\* (variant of AfterRecord: a batch is flushed once it exceeds the batch size)
AfterRecordLate(p, i, batch) ==
  IF Len(batch) > BULK_BATCH_SIZE THEN "bulk_flush"
  ELSE IF i >= Len(req[p].documents) THEN "bulk_final"
  ELSE "bulk_loop"

\* where the loop goes after the record at position i
AfterRecord(p, i, batch) ==
  IF Len(batch) >= BULK_BATCH_SIZE THEN "bulk_flush"
  ELSE IF i >= Len(req[p].documents) THEN "bulk_final"
  ELSE "bulk_loop"

\* (variant of SkipRecord: the id is appended before the existence check)
SkipRecordIdKept(l, d) ==
  [l EXCEPT !.i = @ + 1, !.ids_batch = Append(@, d.doc_id)]

\* the locals after `continue`: a record found existing leaves no trace
SkipRecord(l, d) == [l EXCEPT !.i = @ + 1]

\* one iteration of the loop over docs: the existence check of the record,
\* then its append to batch and ids_batch
BulkRecord(p) ==
  /\ pc[p] = "bulk_loop"
  /\ UNCHANGED store
  /\ LET i == loc[p].i
         d == req[p].documents[i]
         batch == Append(loc[p].batch, LcDoc(d))
         ids_batch == Append(loc[p].ids_batch, d.doc_id)
         appended == [loc[p] EXCEPT !.batch = batch, !.ids_batch = ids_batch, !.i = i + 1]
         skipped == SkipRecord(loc[p], d)
     IN IF d.doc_id = None
        THEN Goto(p, AfterRecord(p, i, batch), calls[p], appended)
        ELSE \E ok \in BOOLEAN :
               LET cs == Append(calls[p], [op |-> "exists", index |-> req[p].index,
                                           id |-> d.doc_id,
                                           found |-> ok /\ DocExists(docs[req[p].index],
                                                                     d.doc_id)]) IN
               IF ~ok THEN Finish(p, StoreError("exists"), cs)
               ELSE IF DocExists(docs[req[p].index], d.doc_id)
                    THEN Goto(p, AfterRecord(p, i, loc[p].batch), cs, skipped)
                    ELSE Goto(p, AfterRecord(p, i, batch), cs, appended)

\* vector_store.add_documents(batch, ids=... if any(ids_batch) else None)
\* of a full batch inside the loop
BulkFlush(p) ==
  /\ pc[p] = "bulk_flush"
  /\ UNCHANGED <<esVersion, mappings>>
  /\ \E ok \in BOOLEAN :
       LET ids == IdsArg(loc[p].ids_batch)
           cs == Append(calls[p], [op |-> "add_documents", index |-> req[p].index,
                                   docs |-> loc[p].batch, ids |-> ids])
           w == WriteDocs(docs[req[p].index], nextAuto, loc[p].batch, ids)
           l == [loc[p] EXCEPT !.added = @ + Len(loc[p].batch),
                               !.batch = <<>>, !.ids_batch = <<>>] IN
       IF ~ok THEN /\ Finish(p, StoreError("add_documents"), cs)
                   /\ UNCHANGED <<docs, nextAuto>>
       ELSE IF ~Accepts(mappings[req[p].index], loc[p].batch)
       THEN /\ Finish(p, DimensionError("add_documents"), cs)
            /\ UNCHANGED <<docs, nextAuto>>
       ELSE /\ docs' = [docs EXCEPT ![req[p].index] = w.docs]
            /\ nextAuto' = w.auto
            /\ Goto(p, IF loc[p].i > Len(req[p].documents) THEN "bulk_final"
                       ELSE "bulk_loop", cs, l)

\* the final batch and the response
BulkFinal(p) ==
  /\ pc[p] = "bulk_final"
  /\ UNCHANGED <<esVersion, mappings>>
  /\ IF loc[p].batch = <<>>
     THEN /\ Finish(p, [status |-> "ok", added |-> loc[p].added], calls[p])
          /\ UNCHANGED <<docs, nextAuto>>
     ELSE \E ok \in BOOLEAN :
            LET ids == IdsArg(loc[p].ids_batch)
                cs == Append(calls[p], [op |-> "add_documents", index |-> req[p].index,
                                        docs |-> loc[p].batch, ids |-> ids])
                w == WriteDocs(docs[req[p].index], nextAuto, loc[p].batch, ids) IN
            IF ~ok THEN /\ Finish(p, StoreError("add_documents"), cs)
                        /\ UNCHANGED <<docs, nextAuto>>
            ELSE IF ~Accepts(mappings[req[p].index], loc[p].batch)
            THEN /\ Finish(p, DimensionError("add_documents"), cs)
                 /\ UNCHANGED <<docs, nextAuto>>
            ELSE /\ docs' = [docs EXCEPT ![req[p].index] = w.docs]
                 /\ nextAuto' = w.auto
                 /\ Finish(p, [status |-> "ok",
                               added |-> loc[p].added + Len(loc[p].batch)], cs)

\* ------------------------------------------------------------- search
Min(a, b) == IF a <= b THEN a ELSE b

\* k = q.k or 5
EffectiveK(k) == IF k.some /\ k.val /= 0 THEN k.val ELSE DefaultK

\* if q.filter_metadata: (None and {} are falsy)
HasFilter(f) == f.some /\ DOMAIN f.val /= {}

\* must_clauses: null values are left out, a list gives a terms clause,
\* anything else a term clause, each on the field metadata.<key>
MustClauses(f) ==
  { [kind |-> IF f[key].type = "list" THEN "terms" ELSE "term",
     field |-> <<"metadata", key>>, val |-> f[key]] :
    key \in {x \in DOMAIN f : f[x] /= Null} }

ClauseMatches(d, c) ==
  LET key == c.field[2] IN
  /\ key \in DOMAIN d.metadata
  /\ IF c.kind = "terms"
     THEN \E j \in 1..Len(c.val.vs) : d.metadata[key] = Scalar(c.val.vs[j])
     ELSE d.metadata[key] = c.val

\* {"bool": {"filter": must_clauses}}: the documents matching every clause
FilterHits(S, clauses) == {d \in S : \A c \in clauses : ClauseMatches(d, c)}

\* the id lists a filter-only query with "size": FilterSize can return
CandidateIds(S, clauses) ==
  LET hits == IdsOf(FilterHits(S, clauses)) IN
  {T \in SUBSET hits : Cardinality(T) = Min(FilterSize, Cardinality(hits))}

\* documents in descending order of the relation GE (pairs <<d, e>> with
\* score(d) >= score(e)); equal scores come in an order the engine fixes
\* and the program does not control
RECURSIVE SortDesc(_, _)
SortDesc(S, GE) ==
  IF S = {} THEN <<>>
  ELSE LET m == CHOOSE x \in S : \A y \in S : <<x, y>> \in GE
       IN <<m>> \o SortDesc(S \ {m}, GE)

Take(s, n) == SubSeq(s, 1, Min(n, Len(s)))
Range(s) == {s[j] : j \in 1..Len(s)}

Hit(d) == [id |-> d.id,
           source |-> [text |-> d.text, metadata |-> d.metadata, vector |-> d.vector]]
Hits(s) == [j \in 1..Len(s) |-> Hit(s[j])]

\* the k nearest documents of an index to q on its vector field
Nearest(S, q, k) ==
  LET GE == {pr \in S \X S : CosGE(pr[1].vector, pr[2].vector, q)}
  IN Take(SortDesc(S, GE), k)

CosIsOne(u, q) == Dot(u, q) > 0 /\ Dot(u, q) * Dot(u, q) = Dot(u, u) * Dot(q, q)
CosIsMinusOne(u, q) == Dot(u, q) < 0 /\ Dot(u, q) * Dot(u, q) = Dot(u, u) * Dot(q, q)

\* search with a top-level "knn" section and a "query" section: the engine
\* returns the k nearest neighbours of the index together with the matches
\* of the query, ranked by the sum of the two scores (1 for a match of the
\* ids query, (1 + cosine) / 2 for a neighbour), at most SearchDefaultSize hits
SearchDefaultSize == 10

KnnSearch(S, ids, q, k) ==
  LET N == Range(Nearest(S, q, k))
      C == {d \in S : d.id \in ids}
      knnZero(d) == d \notin N \/ CosIsMinusOne(d.vector, q)
      ge(d, e) ==
        IF (d \in C) = (e \in C)
        THEN IF d \in N /\ e \in N THEN CosGE(d.vector, e.vector, q)
             ELSE d \in N \/ knnZero(e)
        ELSE d \in C \/ (d \in N /\ CosIsOne(d.vector, q) /\ knnZero(e))
      H == N \cup C
  IN Hits(Take(SortDesc(H, {pr \in H \X H : ge(pr[1], pr[2])}), SearchDefaultSize))

\* the value a script reads from a document's field
FieldOf(d, field) == IF field = VectorField THEN Some(d.vector) ELSE Nothing

\* script_score over {"ids": {"values": ids}} with
\* cosineSimilarity(params.q, '<field>') + 1.0 and "size": k.
\* Nothing: the script fails because a document has no such field.
ScriptScoreSearch(S, ids, q, k, field) ==
  LET C == {d \in S : d.id \in ids}
      ge(d, e) == CosGE(FieldOf(d, field).val, FieldOf(e, field).val, q)
  IN IF \E d \in C : ~FieldOf(d, field).some THEN Nothing
     ELSE Some(Hits(Take(SortDesc(C, {pr \in C \X C : ge(pr[1], pr[2])}), k)))

\* what the generation chain returns for a query over an index
Generate(model, query, S, k) ==
  LET ctx == Nearest(S, Embed(query), k) IN
  [model |-> model, prompt |-> query, context |-> [j \in 1..Len(ctx) |-> ctx[j].text]]

\* ElasticsearchStore(...), Ollama(...), as_retriever, RetrievalQA inside try
SSetup(p) ==
  /\ pc[p] = "s_setup"
  /\ UNCHANGED store
  /\ \E ok \in BOOLEAN :
       LET cs == Append(calls[p], [op |-> "bind", index |-> req[p].index,
                                   model |-> req[p].model])
           l == [loc[p] EXCEPT !.k = EffectiveK(req[p].k)] IN
       IF ~ok THEN Finish(p, [status |-> "msg", msg |-> "bind"], cs)
       ELSE Goto(p, IF HasFilter(req[p].filter_metadata) THEN "s_filter" ELSE "s_qa",
                 cs, l)

\* res = es_client.search(index=ES_INDEX, body=body); ids; if not ids: ...
SFilter(p) ==
  /\ pc[p] = "s_filter"
  /\ UNCHANGED store
  /\ \E ok \in BOOLEAN :
       LET clauses == MustClauses(req[p].filter_metadata.val)
           cs == Append(calls[p], [op |-> "search", index |-> ES_INDEX,
                                   body |-> "filter", clauses |-> clauses]) IN
       IF ~ok THEN Finish(p, StoreError("search"), cs)
       ELSE IF ~mappings[ES_INDEX].exists THEN Finish(p, IndexNotFound("search"), cs)
       ELSE \E ids \in CandidateIds(docs[ES_INDEX], clauses) :
              IF ids = {}
              THEN Finish(p, [status |-> "note", query |-> req[p].query,
                              results |-> <<>>, note |-> "no docs after filter"], cs)
              ELSE Goto(p, "s_embed", cs, [loc[p] EXCEPT !.ids = ids])

\* query_embedding = embedding_model.embed_query(q.query)
SEmbed(p) ==
  /\ pc[p] = "s_embed"
  /\ UNCHANGED store
  /\ \E ok \in BOOLEAN :
       LET cs == Append(calls[p], [op |-> "embed_query", text |-> req[p].query]) IN
       IF ~ok THEN Finish(p, Raised("EmbeddingError", "embed_query", "unavailable"), cs)
       ELSE Goto(p, "s_knn", cs, [loc[p] EXCEPT !.qvec = Embed(req[p].query)])

\* a search body with a top-level "knn" section is served by engines from
\* version 8 on, on an index whose field KnnField is a dense_vector
KnnSupported(version, mapping) ==
  /\ mapping.exists
  /\ MajorVersion(version) >= 8
  /\ mapping.vector.field = KnnField
  /\ mapping.vector.type = "dense_vector"

\* (variant of SKnn: a failure of the knn search is raised to the caller)
SKnnRaises(p) ==
  /\ pc[p] = "s_knn"
  /\ UNCHANGED store
  /\ \E ok \in BOOLEAN :
       LET cs == Append(calls[p], [op |-> "search", index |-> ES_INDEX, body |-> "knn",
                                   field |-> KnnField, ids |-> loc[p].ids,
                                   query_vector |-> loc[p].qvec, k |-> loc[p].k]) IN
       IF ~ok \/ ~KnnSupported(esVersion, mappings[ES_INDEX])
       THEN Finish(p, StoreError("search"), cs)
       ELSE Finish(p, [status |-> "results", query |-> req[p].query,
                       results |-> KnnSearch(docs[ES_INDEX], loc[p].ids,
                                             loc[p].qvec, loc[p].k)], cs)

\* try: es_res = es_client.search(index=ES_INDEX, body=knn_body) ...
SKnn(p) ==
  /\ pc[p] = "s_knn"
  /\ UNCHANGED store
  /\ \E ok \in BOOLEAN :
       LET cs == Append(calls[p], [op |-> "search", index |-> ES_INDEX, body |-> "knn",
                                   field |-> KnnField, ids |-> loc[p].ids,
                                   query_vector |-> loc[p].qvec, k |-> loc[p].k]) IN
       IF ~ok \/ ~KnnSupported(esVersion, mappings[ES_INDEX])
       THEN Goto(p, "s_script", cs, loc[p])
       ELSE Finish(p, [status |-> "results", query |-> req[p].query,
                       results |-> KnnSearch(docs[ES_INDEX], loc[p].ids,
                                             loc[p].qvec, loc[p].k)], cs)

\* except Exception: es_res = es_client.search(index=ES_INDEX, body=script_body) ...
SScript(p) ==
  /\ pc[p] = "s_script"
  /\ UNCHANGED store
  /\ \E ok \in BOOLEAN :
       LET cs == Append(calls[p], [op |-> "search", index |-> ES_INDEX,
                                   body |-> "script_score", field |-> ScriptField,
                                   ids |-> loc[p].ids, query_vector |-> loc[p].qvec,
                                   k |-> loc[p].k])
           r == ScriptScoreSearch(docs[ES_INDEX], loc[p].ids, loc[p].qvec, loc[p].k,
                                  ScriptField) IN
       IF ~ok THEN Finish(p, StoreError("search"), cs)
       ELSE IF ~mappings[ES_INDEX].exists THEN Finish(p, IndexNotFound("search"), cs)
       ELSE IF ~r.some
            THEN Finish(p, Raised("ApiError", "search", "script_exception"), cs)
            ELSE Finish(p, [status |-> "results", query |-> req[p].query,
                            results |-> r.val], cs)

\* retriever.search_kwargs = {"k": k}; answer = qa.invoke(q.query)
SQa(p) ==
  /\ pc[p] = "s_qa"
  /\ UNCHANGED store
  /\ \E ok \in BOOLEAN :
       LET cs == Append(calls[p], [op |-> "qa.invoke", index |-> req[p].index,
                                   query |-> req[p].query, k |-> loc[p].k]) IN
       IF ~ok THEN Finish(p, Raised("ChainError", "qa.invoke", "unavailable"), cs)
       ELSE IF ~mappings[req[p].index].exists
       THEN Finish(p, IndexNotFound("qa.invoke"), cs)
       ELSE Finish(p, [status |-> "answer", query |-> req[p].query,
                       answer |-> Generate(req[p].model, req[p].query,
                                           docs[req[p].index], loc[p].k)], cs)

Step(p) ==
  \/ Start(p)
  \/ Resubmit(p)
  \/ CiExists(p)
  \/ CiInfo(p)
  \/ CiCreate(p)
  \/ AdExists(p)
  \/ AdWrite(p)
  \/ BulkLen(p)
  \/ BulkRecord(p)
  \/ BulkFlush(p)
  \/ BulkFinal(p)
  \/ SSetup(p)
  \/ SFilter(p)
  \/ SEmbed(p)
  \/ SKnn(p)
  \/ SScript(p)
  \/ SQa(p)

Next == Step(1) \/ Deliver

Spec == Init /\ [][Next]_vars

\* ------------------------------- the service across redeployments
\* EMBED_DIM values a deployment can be started with
Dims == {EMBED_DIM, EMBED_DIM + 1}

RedeployRequests ==
  [op : {"add_document"}, index : IndexNames, doc : {DocA, DocNoId}]
    \cup [op : {"add_documents_bulk"}, index : IndexNames,
          documents : {<<>>, <<DocA, DocB>>, <<DocB, DocC, DocNoId>>}]
    \cup [op : {"search"}, index : IndexNames, model : Models, query : {"x"},
          k : {Some(1)}, filter_metadata : {Nothing, Some(Meta1("lang", Scalar("en")))}]

StartRedeployed(p) ==
  /\ last = NoLast
  /\ \E r \in RedeployRequests : Begin(p, r, Nothing)

\* between two requests the engine is replaced by one of another version,
\* or the service is restarted with another EMBED_DIM; the indices stay
Redeploy ==
  /\ \A p \in Procs : pc[p] = "idle"
  /\ last = NoLast
  /\ esVersion' \in Versions
  /\ dim' \in Dims
  /\ <<esVersion', dim'>> /= <<esVersion, dim>>
  /\ UNCHANGED <<mappings, docs, nextAuto, pc, req, loc, calls, pre, follows,
                 served, last, san, guard, answered>>

StepRedeployed(p) ==
  \/ StartRedeployed(p)
  \/ CiExists(p)
  \/ CiInfo(p)
  \/ CiCreate(p)
  \/ AdExists(p)
  \/ AdWrite(p)
  \/ BulkLen(p)
  \/ BulkRecord(p)
  \/ BulkFlush(p)
  \/ BulkFinal(p)
  \/ SSetup(p)
  \/ SFilter(p)
  \/ SEmbed(p)
  \/ SKnn(p)
  \/ SScript(p)
  \/ SQa(p)

NextRedeploy == StepRedeployed(1) \/ Deliver \/ Redeploy

SpecRedeploy == Init /\ [][NextRedeploy]_vars

\* ------------------------------------- ingestion requests in parallel
ConcurrentRequests ==
  [op : {"add_document"}, index : IndexNames, doc : DocInputs]
    \cup [op : {"add_documents_bulk"}, index : IndexNames,
          documents : {<<DocA, DocB>>, <<DocB, DocC, DocA>>}]

StartConcurrent(p) ==
  /\ last = NoLast
  /\ \E r \in ConcurrentRequests : Begin(p, r, Nothing)

IngestStep(p) ==
  \/ StartConcurrent(p)
  \/ CiExists(p)
  \/ CiInfo(p)
  \/ CiCreate(p)
  \/ AdExists(p)
  \/ AdWrite(p)
  \/ BulkLen(p)
  \/ BulkRecord(p)
  \/ BulkFlush(p)
  \/ BulkFinal(p)

\* each request runs on its own thread; the steps of two requests
\* interleave in any order
NextConcurrent == (\E p \in Procs : IngestStep(p)) \/ Deliver

SpecConcurrent == Init /\ [][NextConcurrent]_vars

\* ------------------------------------------- clean_metadata on its own
MetaKeys == {"lang", "rating", "tags"}
\* values a metadata entry can take: None, scalars (the empty string, which
\* is falsy, among them) and lists (the empty list among them)
MetaValues == {Null, Scalar("en"), Scalar(""), List(<<>>), List(<<"a", "b">>)}
Metadatas == UNION {[K -> MetaValues] : K \in SUBSET MetaKeys}
\* Optional[Dict[str, Any]]
MetadataInputs == {Nothing} \cup {Some(m) : m \in Metadatas}

InitSanitize ==
  /\ esVersion = <<8, 11>>
  /\ Quiet
  /\ guard = GuardOff
  /\ \E m \in MetadataInputs : san = [phase |-> "input", m |-> m]

\* out = clean_metadata(m)
Sanitize ==
  /\ san.phase = "input"
  /\ san' = [phase |-> "once", m |-> san.m, out |-> clean_metadata(san.m)]
  /\ UNCHANGED <<store, pc, req, loc, calls, pre, follows, served, last, guard, dim,
               answered>>

\* again = clean_metadata(out)
SanitizeAgain ==
  /\ san.phase = "once"
  /\ san' = [san EXCEPT !.phase = "twice"] @@ [again |-> clean_metadata(Some(san.out))]
  /\ UNCHANGED <<store, pc, req, loc, calls, pre, follows, served, last, guard, dim,
               answered>>

NextSanitize == Sanitize \/ SanitizeAgain

SpecSanitize == InitSanitize /\ [][NextSanitize]_vars

\* ------------------------------------------- wait_for_es at module startup
PingOutcomes == {"true", "false", "raise"}

InitStartup ==
  /\ esVersion \in Versions
  /\ Quiet
  /\ san = SanOff
  /\ \E retries \in 0..MaxRetries :
       guard = [phase |-> "for", retries |-> retries, i |-> 0, pings |-> <<>>]

\* (variant of AfterPing: an exception of ping() leaves the function)
AfterPingUncaught(g, outcome) ==
  IF outcome = "true" THEN [g EXCEPT !.phase = "returned"] @@ [result |-> TRUE]
  ELSE IF outcome = "raise" THEN [g EXCEPT !.phase = "raised"]
  ELSE [g EXCEPT !.phase = "sleep"]

\* if es_client.ping(): return True / except Exception: pass
AfterPing(g, outcome) ==
  IF outcome = "true" THEN [g EXCEPT !.phase = "returned"] @@ [result |-> TRUE]
  ELSE [g EXCEPT !.phase = "sleep"]

\* for i in range(retries): ... return False
GuardFor ==
  /\ guard.phase = "for"
  /\ guard' = IF guard.i < guard.retries THEN [guard EXCEPT !.phase = "ping"]
              ELSE [guard EXCEPT !.phase = "returned"] @@ [result |-> FALSE]
  /\ UNCHANGED <<store, pc, req, loc, calls, pre, follows, served, last, san, dim,
               answered>>

\* try: es_client.ping()
GuardPing ==
  /\ guard.phase = "ping"
  /\ \E outcome \in PingOutcomes :
       guard' = AfterPing([guard EXCEPT !.pings = Append(@, outcome)], outcome)
  /\ UNCHANGED <<store, pc, req, loc, calls, pre, follows, served, last, san, dim,
               answered>>

\* time.sleep(delay)
GuardSleep ==
  /\ guard.phase = "sleep"
  /\ guard' = [guard EXCEPT !.phase = "for", !.i = @ + 1]
  /\ UNCHANGED <<store, pc, req, loc, calls, pre, follows, served, last, san, dim,
               answered>>

\* if not wait_for_es(es_client): raise RuntimeError(...)
Startup ==
  /\ guard.phase = "returned"
  /\ guard' = [guard EXCEPT !.phase = IF guard.result THEN "serving" ELSE "fatal"]
  /\ UNCHANGED <<store, pc, req, loc, calls, pre, follows, served, last, san, dim,
               answered>>

NextStartup == GuardFor \/ GuardPing \/ GuardSleep \/ Startup

\* the loop is straight-line code of one thread: a step that can be taken
\* is taken (ping() and sleep() return or raise)
SpecStartup == InitStartup /\ [][NextStartup]_vars /\ WF_vars(NextStartup)


\* =================================================================
\* Properties
\* =================================================================
\* The exchange completed last repeats the one before it (same endpoint,
\* index and document id or documents), and both calls returned.
Twice(op) ==
  /\ last.req.op = op
  /\ last.follows.some
  /\ last.follows.val.resp.status /= "raised"
  /\ last.resp.status /= "raised"

DocsWithId(S, id) == {d \in S : d.id = id}

\* C1: two sequential add_document calls with the same id, the id not in
\* the index before the first, return ok and then skipped, and the index
\* then holds exactly one document of that id.
C1_IngestOneTwice ==
  (/\ Twice("add_document")
   /\ last.req.doc.doc_id /= None
   /\ last.req.doc.doc_id \notin last.follows.val.pre.ids)
  => /\ last.follows.val.resp.status = "ok"
     /\ last.resp.status = "skipped"
     /\ Cardinality(DocsWithId(docs[last.req.index], last.req.doc.doc_id)) = 1

C1_Witness ==
  /\ Twice("add_document")
  /\ last.req.doc.doc_id /= None
  /\ last.req.doc.doc_id \notin last.follows.val.pre.ids
  /\ last.resp.status = "skipped"
  /\ \E d \in docs[last.req.index] :
       d.id = last.req.doc.doc_id /\ d.text /= last.req.doc.page_content


\* The bulk request completed last re-runs the one before it, on documents
\* none of whose ids the index held before the first run.
BulkRerun ==
  /\ Twice("add_documents_bulk")
  /\ Len(last.req.documents) > 0
  /\ \A j \in 1..Len(last.req.documents) :
       last.req.documents[j].doc_id \notin last.follows.val.pre.ids

\* every document of the list carries an id, and no two the same id
DistinctIds(documents) ==
  /\ \A j \in 1..Len(documents) : documents[j].doc_id /= None
  /\ \A j, l \in 1..Len(documents) :
       documents[j].doc_id = documents[l].doc_id => j = l

\* C2 (as stated): add_documents_bulk on n never-before-seen documents
\* returns added = n and its immediate re-run returns added = 0, for every
\* input list, documents without an id included.
C2_BulkRerunAnyList ==
  BulkRerun
  => /\ last.follows.val.resp.status = "ok"
     /\ last.follows.val.resp.added = Len(last.req.documents)
     /\ last.resp.status = "ok"
     /\ last.resp.added = 0

\* C2 (amended): the same, for non-empty lists whose documents all carry an
\* id, pairwise distinct, whatever the length of the list relative to the
\* batch size.
C2_BulkRerunDistinctIds ==
  (BulkRerun /\ DistinctIds(last.req.documents))
  => /\ last.follows.val.resp.status = "ok"
     /\ last.follows.val.resp.added = Len(last.req.documents)
     /\ last.resp.status = "ok"
     /\ last.resp.added = 0

C2_Witness ==
  /\ BulkRerun
  /\ DistinctIds(last.req.documents)
  /\ Len(last.req.documents) > BULK_BATCH_SIZE
  /\ Len(last.req.documents) % BULK_BATCH_SIZE /= 0
  /\ last.resp.status = "ok"
  /\ last.resp.added = 0


Ingestion == {"add_document", "add_documents_bulk"}

\* the response is an outage of the store or of a collaborator
Unavailable(resp) ==
  \/ resp.status = "msg"
  \/ resp.status = "raised" /\ resp.cause \in {"unavailable", "info", "indices.create"}

CallsOf(cs, ops) == {j \in 1..Len(cs) : cs[j].op \in ops}

\* C5: on an index that did not exist, ingestion against a version 8 engine
\* creates it with a dense_vector field, against a version 7 engine with a
\* knn_vector (hnsw, cosine) field, of the requested dimensionality, and
\* the metadata field is an object with dynamic mapping off.
C5_SchemaSelection ==
  (/\ last.req.op \in Ingestion
   /\ ~last.pre.exists
   /\ MajorVersion(esVersion) \in {7, 8}
   /\ ~Unavailable(last.resp))
  => LET m == mappings[last.req.index] IN
     /\ m.exists
     /\ m.metadata.type = "object" /\ m.metadata.dynamic = FALSE
     /\ MajorVersion(esVersion) = 8
          => m.vector.type = "dense_vector" /\ m.vector.dims = EMBED_DIM
     /\ MajorVersion(esVersion) = 7
          => /\ m.vector.type = "knn_vector" /\ m.vector.dimension = EMBED_DIM
             /\ m.vector.method.name = "hnsw"
             /\ m.vector.method.space_type = "cosinesimil"

C5_Witness ==
  /\ last.req.op \in Ingestion
  /\ ~last.pre.exists
  /\ MajorVersion(esVersion) = 7
  /\ mappings[last.req.index].exists
  /\ CallsOf(last.calls, {"indices.create"}) /= {}

\* C6 (as stated): against an engine whose major version is outside {7, 8},
\* provisioning a fresh index fails as an unsupported version and no index
\* is created.
C6_UnsupportedOutside78 ==
  MajorVersion(esVersion) \notin {7, 8}
  => /\ \A n \in IndexNames : ~mappings[n].exists
     /\ (last.req.op \in Ingestion /\ ~Unavailable(last.resp))
          => /\ last.resp.status = "raised"
             /\ last.resp.cause = "Unsupported Elasticsearch version"


\* the id the j-th document of an add_documents call is written under
IdAt(c, j) == IF c.ids.some THEN c.ids.val[j] ELSE None

\* the add_documents call pairs every document with the id of the input
\* record the document was built from
PairedWithInput(c, documents) ==
  /\ c.ids.some => Len(c.ids.val) = Len(c.docs)
  /\ \A j \in 1..Len(c.docs) :
       \E m \in 1..Len(documents) :
         /\ documents[m].doc_id = IdAt(c, j)
         /\ LcDoc(documents[m]) = c.docs[j]

AllInputs == DocInputs \cup BulkInputs
CallerIds == {d.doc_id : d \in AllInputs} \ {None}

\* a stored document is some submitted record under that record's own id,
\* or a record submitted without id under an engine-assigned id
StoredUnderOwnId(d) ==
  \E r \in AllInputs :
    /\ d.text = r.page_content
    /\ d.metadata = clean_metadata(r.metadata)
    /\ IF d.id \in CallerIds THEN r.doc_id = d.id ELSE r.doc_id = None

\* C8: in add_documents_bulk every batch flushed pairs the i-th id with the
\* i-th content of one input record, and every stored document sits under
\* its own submitted id, or under an engine-assigned id if it has none.
C8_IdsTravelWithContent ==
  /\ \A p \in Procs :
       req[p].op = "add_documents_bulk" =>
         \A j \in CallsOf(calls[p], {"add_documents"}) :
           PairedWithInput(calls[p][j], req[p].documents)
  /\ last.req.op = "add_documents_bulk" =>
       \A j \in CallsOf(last.calls, {"add_documents"}) :
         PairedWithInput(last.calls[j], last.req.documents)
  /\ \A n \in IndexNames : \A d \in docs[n] : StoredUnderOwnId(d)

\* a bulk request completed whose first record was skipped as existing and
\* whose next batch mixed a record without id and a record with one
C8_Witness ==
  /\ last.req.op = "add_documents_bulk"
  /\ last.resp.status = "ok"
  /\ Len(last.req.documents) > 1
  /\ last.req.documents[1].doc_id \in last.pre.ids
  /\ \E j \in CallsOf(last.calls, {"add_documents"}) :
       LET c == last.calls[j] IN
       /\ c.ids.some
       /\ \E a, b \in 1..Len(c.docs) : c.ids.val[a] = None /\ c.ids.val[b] /= None


\* the exchange completed last is a search with a non-empty filter
FilteredSearch == last.req.op = "search" /\ HasFilter(last.req.filter_metadata)

\* the documents of the index named in the request that satisfy the filter
TargetMatches ==
  FilterHits(docs[last.req.index], MustClauses(last.req.filter_metadata.val))

NoDocsResponse ==
  [status |-> "note", query |-> last.req.query, results |-> <<>>,
   note |-> "no docs after filter"]

\* C3 (as stated): a search whose non-empty filter matches no document
\* calls neither embed_query nor qa.invoke, and what it returns is
\* {query, results: [], note: "no docs after filter"}.
C3_FilterShortCircuit ==
  (FilteredSearch /\ TargetMatches = {})
  => /\ CallsOf(last.calls, {"embed_query", "qa.invoke"}) = {}
     /\ last.resp.status \notin {"raised", "msg"} => last.resp = NoDocsResponse

\* s lists, in descending cosine similarity to q, the k best of C
IsTopK(s, C, q, k) ==
  /\ Len(s) = Min(k, Cardinality(C))
  /\ \A j \in 1..Len(s) : \E d \in C : s[j] = Hit(d)
  /\ \A j, l \in 1..Len(s) : s[j].id = s[l].id => j = l
  /\ \A j, l \in 1..Len(s) :
       j < l => CosGE(s[j].source.vector, s[l].source.vector, q)
  /\ \A j \in 1..Len(s) : \A d \in C :
       (\A l \in 1..Len(s) : s[l].id /= d.id)
         => CosGE(s[j].source.vector, d.vector, q)

\* the search fell back to the script_score query, which the store served
FellBack ==
  /\ FilteredSearch
  /\ CallsOf(last.calls, {"search"}) /= {}
  /\ last.calls[Len(last.calls)].op = "search"
  /\ last.calls[Len(last.calls)].body = "script_score"
  /\ ~Unavailable(last.resp)

\* C4 (as stated): when the approximate search fails, the filtered search
\* returns the top k of the candidate set by descending cosine similarity
\* between the stored vector and the query vector.
C4_FallbackRanksByCosine ==
  FellBack
  => /\ last.resp.status = "results"
     /\ IsTopK(last.resp.results, TargetMatches, Embed(last.req.query),
               EffectiveK(last.req.k))

\* C7 (as stated): search answers every request with one of its structured
\* payloads; no failure of a call it makes is raised to the caller.
C7_SearchNeverRaises ==
  last.req.op = "search"
  => last.resp.status \in {"answer", "results", "note", "msg"}

\* C9 (as stated): add_documents_bulk with an empty list returns no_docs
\* having issued no call to the store, the set of indices unchanged.
C9_EmptyBulkTouchesNothing ==
  (/\ last.req.op = "add_documents_bulk"
   /\ last.req.documents = <<>>
   /\ last.resp.status = "no_docs")
  => /\ last.calls = <<>>
     /\ mappings[last.req.index].exists = last.pre.exists

\* C10 (as stated): a filtered search sends its filter-only query and its
\* vector queries to the index named in the request, and every result is a
\* document of that index.
C10_SearchUsesTargetIndex ==
  FilteredSearch
  => /\ \A j \in CallsOf(last.calls, {"search"}) : last.calls[j].index = last.req.index
     /\ last.resp.status = "results"
          => \A j \in 1..Len(last.resp.results) :
               \E d \in docs[last.req.index] : last.resp.results[j] = Hit(d)


\* the keys of an optional metadata mapping (none if it is absent)
KeysOf(m) == IF m.some THEN DOMAIN m.val ELSE {}

\* C11: clean_metadata returns for every metadata mapping, absent and empty
\* included, a mapping without null value that holds exactly the keys of
\* the argument whose value is not null, each with its value, and applying
\* it to its own result gives that result again.
C11_SanitizePurity ==
  /\ san.phase = "input" => ENABLED Sanitize
  /\ san.phase \in {"once", "twice"} =>
       /\ \A k \in DOMAIN san.out : san.out[k] /= Null
       /\ DOMAIN san.out = {k \in KeysOf(san.m) : san.m.val[k] /= Null}
       /\ \A k \in DOMAIN san.out : san.out[k] = san.m.val[k]
  /\ san.phase = "twice" => san.again = san.out

\* {lang: "en", rating: null} was cleaned to {lang: "en"}, twice
C11_Witness ==
  /\ san.phase = "twice"
  /\ san.m = Some([k \in {"lang", "rating"} |->
                    IF k = "lang" THEN Scalar("en") ELSE Null])
  /\ san.again = Meta1("lang", Scalar("en"))


GuardReturned == guard.phase \in {"returned", "serving", "fatal"}

\* the checks made so far all failed or raised
AllFailed(pings) == \A j \in 1..Len(pings) : pings[j] \in {"false", "raise"}

C12_Checks ==
  /\ guard.phase \in {"for", "ping", "sleep", "returned", "serving", "fatal"}
  /\ Len(guard.pings) <= guard.retries
  /\ GuardReturned =>
       /\ guard.result \in BOOLEAN
       /\ guard.result =>
            /\ Len(guard.pings) >= 1
            /\ guard.pings[Len(guard.pings)] = "true"
            /\ AllFailed(SubSeq(guard.pings, 1, Len(guard.pings) - 1))
       /\ ~guard.result <=>
            (Len(guard.pings) = guard.retries /\ AllFailed(guard.pings))
  /\ guard.phase = "serving" => guard.result
  /\ guard.phase = "fatal" => ~guard.result

\* C12: wait_for_es returns after at most `retries` calls of ping(); it
\* returns True at the first call that succeeds, with no call after it, and
\* False exactly when all `retries` calls failed or raised; no exception of
\* ping() leaves it; and it always returns.
C12_WaitTerminates == []C12_Checks /\ <>GuardReturned

\* the third call succeeded after one that raised and one that failed
C12_Witness ==
  /\ guard.phase = "serving"
  /\ guard.retries = MaxRetries
  /\ Len(guard.pings) = MaxRetries
  /\ guard.pings[1] = "raise"
  /\ guard.pings[Len(guard.pings)] = "true"


\* a request that found its index existing made no info() and no
\* indices.create call
NoProvisioningCalls(r, pr, cs) ==
  (r.op \in Ingestion /\ pr.exists)
    => CallsOf(cs, {"info", "indices.create"}) = {}

C13_NoProbeOnExisting ==
  /\ \A p \in Procs : NoProvisioningCalls(req[p], pre[p], calls[p])
  /\ last /= NoLast => NoProvisioningCalls(last.req, last.pre, last.calls)

C13_MappingKept ==
  \A n \in IndexNames : mappings[n].exists => mappings'[n] = mappings[n]

\* C13: create_index_if_not_exists on an index that exists returns without
\* info() and without indices.create, whatever EMBED_DIM the deployment
\* has and whatever version the engine reports, and no step of an
\* ingestion or of a search changes the mapping of an index that exists.
C13_SchemaFixedAtCreation == []C13_NoProbeOnExisting /\ [][C13_MappingKept]_vars

\* an ingestion went through on an index created for another engine version
\* and another dimensionality than the deployment's
C13_Witness ==
  /\ last.req.op \in Ingestion
  /\ last.pre.exists
  /\ last.resp.status \in {"ok", "skipped"}
  /\ MappingFor(esVersion, dim).some
  /\ mappings[last.req.index].vector.type /= MappingFor(esVersion, dim).val.vector.type
  /\ DimOf(mappings[last.req.index]) /= dim


DocumentCalls == {"exists", "add_documents"}

\* the calls on documents come after the existence check of the index
ProvisionedFirst(cs) ==
  \A j \in CallsOf(cs, DocumentCalls) : j > 1 /\ cs[1].op = "indices.exists"

\* the ingestion completed last ended in the version probe or in the
\* creation of the index
ProvisioningFailed ==
  /\ last.req.op \in Ingestion
  /\ last.resp.status = "raised"
  /\ last.calls[Len(last.calls)].op \in {"info", "indices.create"}

\* C14: in add_document and add_documents_bulk no document is checked or
\* written before the index was provisioned, documents exist only in
\* indices that exist, and a request whose provisioning failed (probe,
\* unsupported version, creation) raised the provisioning error having made
\* no existence check of a document and no write.
C14_ProvisionBeforeWrite ==
  /\ \A p \in Procs : req[p].op \in Ingestion => ProvisionedFirst(calls[p])
  /\ last.req.op \in Ingestion => ProvisionedFirst(last.calls)
  /\ \A n \in IndexNames : docs[n] /= {} => mappings[n].exists
  /\ ProvisioningFailed =>
       /\ \E cause \in {"info", "Unsupported Elasticsearch version", "indices.create",
                         "resource_already_exists_exception"} :
            last.resp = ProvisioningError(cause)
       /\ CallsOf(last.calls, DocumentCalls) = {}
       /\ IdsOf(docs[last.req.index]) = last.pre.ids

\* a bulk ingestion of documents failed in indices.create
C14_Witness ==
  /\ ProvisioningFailed
  /\ last.req.op = "add_documents_bulk"
  /\ Len(last.req.documents) > 0
  /\ last.resp = ProvisioningError("indices.create")


\* both slots hold a completed exchange: the two requests overlapped
BothAnswered == \A p \in Procs : answered[p] /= NoLast

\* two add_document requests for one id of one index, the id not in the
\* index when either began, ran in parallel and both returned ok
RacedOnId ==
  /\ BothAnswered
  /\ last.req.op = "add_document"
  /\ \A p \in Procs :
       /\ answered[p].req.op = "add_document"
       /\ answered[p].req.index = last.req.index
       /\ answered[p].req.doc.doc_id = last.req.doc.doc_id
       /\ answered[p].req.doc.doc_id /= None
       /\ answered[p].req.doc.doc_id \notin answered[p].pre.ids
       /\ answered[p].resp.status = "ok"

\* C15: when two parallel add_document requests carrying the same id, not
\* in the index before, both return ok, both passed the existence check and
\* both wrote, and the index then holds exactly one document of that id,
\* with the content of the request that wrote later.  (That such a run
\* exists is shown by the state C15_Witness.)
C15_LastWriteWins ==
  RacedOnId
  => /\ \A p \in Procs :
          /\ CallsOf(answered[p].calls, {"exists"}) /= {}
          /\ CallsOf(answered[p].calls, {"add_documents"}) /= {}
     /\ DocsWithId(docs[last.req.index], last.req.doc.doc_id)
          = {Stored(last.req.doc.doc_id, LcDoc(last.req.doc))}

\* the race happened between two requests of different content
C15_Witness ==
  /\ RacedOnId
  /\ answered[1].req.doc.page_content /= answered[2].req.doc.page_content

\* two ingestion requests on one index that did not exist when either
\* began ran in parallel against a supported engine, without outage
ProvisionedInParallel ==
  /\ BothAnswered
  /\ MappingFor(esVersion, dim).some
  /\ \A p \in Procs :
       /\ answered[p].req.op \in Ingestion
       /\ answered[p].req.index = last.req.index
       /\ ~answered[p].pre.exists
       /\ ~Unavailable(answered[p].resp)

\* C20 (as stated): two ingestion requests provisioning the same missing
\* index in parallel leave it created, and neither fails with a
\* provisioning error.
C20_ParallelProvisioning ==
  ProvisionedInParallel
  => /\ mappings[last.req.index].exists
     /\ \A p \in Procs : answered[p].resp.status /= "raised"


\* the filtered search completed last found candidates: it got past the
\* filter-only query, its second call after the binding
FoundCandidates == FilteredSearch /\ Len(last.calls) >= 3

\* C16: a filtered search that found candidates calls embed_query once,
\* right after the filter query, and then the knn search with that vector
\* and the candidate ids; if the knn search succeeds its hits are the
\* response and no script_score query is made; if it fails the script_score
\* query follows with the same ids and the same vector, and the response is
\* what that query gives: no msg payload, no exception of the knn search.
C16_EmbedOnceThenFallback ==
  FoundCandidates
  => LET cs == last.calls IN
     /\ Len(cs) <= 5
     /\ CallsOf(cs, {"embed_query"}) = {3}
     /\ cs[3].text = last.req.query
     /\ Len(cs) = 3 => last.resp = Raised("EmbeddingError", "embed_query", "unavailable")
     /\ Len(cs) >= 4 =>
          /\ cs[4].op = "search" /\ cs[4].body = "knn"
          /\ cs[4].ids /= {}
          /\ cs[4].query_vector = Embed(last.req.query)
     /\ Len(cs) = 4 =>
          /\ last.resp.status = "results"
          /\ last.resp.results = KnnSearch(docs[cs[4].index], cs[4].ids,
                                            cs[4].query_vector, cs[4].k)
     /\ Len(cs) = 5 =>
          /\ cs[5].op = "search" /\ cs[5].body = "script_score"
          /\ cs[5].ids = cs[4].ids
          /\ cs[5].query_vector = cs[4].query_vector
          /\ last.resp.status \in {"results", "raised"}
          /\ last.resp.status = "raised" =>
               last.resp \in {StoreError("search"), IndexNotFound("search"),
                              Raised("ApiError", "search", "script_exception")}

\* the knn search of a filtered search with two candidates failed and the
\* script_score query was made
C16_Witness ==
  /\ FoundCandidates
  /\ Len(last.calls) = 5
  /\ last.calls[5].body = "script_score"
  /\ Cardinality(last.calls[5].ids) = 2


\* the add_documents calls of a call log, and its es_client.exists calls
\* (each with what it returned), in the order they were made
WriteCalls(cs) == SelectSeq(cs, LAMBDA c : c.op = "add_documents")
ExistsCalls(cs) == SelectSeq(cs, LAMBDA c : c.op = "exists")

\* the records of `documents` not found existing, in order; ex lists the
\* existence checks made, one for each record that carries an id
RECURSIVE NotFound(_, _)
NotFound(documents, ex) ==
  IF documents = <<>> THEN <<>>
  ELSE LET d == Head(documents) IN
       IF d.doc_id = None THEN <<d>> \o NotFound(Tail(documents), ex)
       ELSE IF Head(ex).found THEN NotFound(Tail(documents), Tail(ex))
       ELSE <<d>> \o NotFound(Tail(documents), Tail(ex))

\* the documents of the batches written, one after the other, each with
\* the id it was written under
RECURSIVE Flushed(_)
Flushed(ws) ==
  IF ws = <<>> THEN <<>>
  ELSE [j \in 1..Len(Head(ws).docs) |->
          [id |-> IdAt(Head(ws), j), doc |-> Head(ws).docs[j]]] \o Flushed(Tail(ws))

\* C17: a completed add_documents_bulk wrote, batch after batch, exactly
\* the input records that its existence checks did not find, in the order
\* they were submitted and each once; no batch is empty or larger than
\* BULK_BATCH_SIZE, only the last can be smaller; and `added` is the number
\* of documents written.  A batch written inside the loop is always full.
C17_BatchesAreTheInput ==
  /\ \A p \in Procs :
       req[p].op = "add_documents_bulk" /\ pc[p] \in {"bulk_loop", "bulk_flush"} =>
         \A j \in CallsOf(calls[p], {"add_documents"}) :
           Len(calls[p][j].docs) = BULK_BATCH_SIZE
  /\ (last.req.op = "add_documents_bulk" /\ last.resp.status = "ok") =>
       LET ws == WriteCalls(last.calls)
           kept == NotFound(last.req.documents, ExistsCalls(last.calls))
       IN /\ Flushed(ws) = [j \in 1..Len(kept) |->
                              [id |-> kept[j].doc_id, doc |-> LcDoc(kept[j])]]
          /\ \A j \in 1..Len(ws) :
               /\ Len(ws[j].docs) \in 1..BULK_BATCH_SIZE
               /\ j < Len(ws) => Len(ws[j].docs) = BULK_BATCH_SIZE
          /\ last.resp.added = Len(kept)

\* of three records the second was found existing; the first and the third
\* went out in one batch
C17_Witness ==
  /\ last.req.op = "add_documents_bulk"
  /\ last.resp.status = "ok"
  /\ Len(last.req.documents) = 3
  /\ last.req.documents[1].doc_id /= None
  /\ last.req.documents[2].doc_id /= None
  /\ ~ExistsCalls(last.calls)[1].found
  /\ ExistsCalls(last.calls)[2].found
  /\ last.resp.added = 2


\* a stored document satisfies every non-null constraint of the filter
Satisfies(source, f) ==
  \A c \in MustClauses(f) :
    ClauseMatches([metadata |-> source.metadata], c)

\* C18 (as stated): every result of a filtered search, from the knn search
\* as from the script_score query, has its id among the candidate ids the
\* filter-only query returned and satisfies the filter, and there are at
\* most k results.
C18_ResultsWithinCandidates ==
  (FoundCandidates /\ last.resp.status = "results")
  => /\ \A j \in 1..Len(last.resp.results) :
          /\ last.resp.results[j].id \in last.calls[4].ids
          /\ Satisfies(last.resp.results[j].source, last.req.filter_metadata.val)
     /\ Len(last.resp.results) <= EffectiveK(last.req.k)


\* add_document was called with an id the index held when the call began
ExistingId(r, pr) ==
  r.op = "add_document" /\ r.doc.doc_id /= None /\ r.doc.doc_id \in pr.ids

C19_Skipped ==
  (ExistingId(last.req, last.pre) /\ ~Unavailable(last.resp))
  => /\ last.resp = [status |-> "skipped", reason |-> "exists"]
     /\ CallsOf(last.calls, {"add_documents", "info", "indices.create"}) = {}

C19_StoreKept ==
  (\E p \in Procs : ExistingId(req[p], pre[p]))
  => UNCHANGED <<mappings, docs, nextAuto>>

\* C19: add_document with an id that is in the index returns skipped
\* without add_documents (so without embedding), info() or indices.create,
\* and no step of the call changes a document or an index: what is stored
\* under the id stays what the earlier write put there.
C19_SkipLeavesStore == []C19_Skipped /\ [][C19_StoreKept]_vars

\* a document of other content than the stored one was skipped
C19_Witness ==
  /\ ExistingId(last.req, last.pre)
  /\ last.resp.status = "skipped"
  /\ Stored(last.req.doc.doc_id, LcDoc(last.req.doc)) \notin docs[last.req.index]
  /\ Cardinality(docs[last.req.index]) > 1

====
